---- MODULE Spec2Model ----
(***************************************************************************)
(* dbpreferences.tools.data_eval: evaluate the text of a Python data       *)
(* literal with a whitelisting walker over the AST of the Python 2         *)
(* `compiler` package (the first branch of the import at lines 34-37, the  *)
(* one the module's own unit tests are written for).                       *)
(*                                                                         *)
(* Text is modelled at the level of lexical tokens: a source string is a   *)
(* sequence of tokens, a line ending character ("\r", "\n") and the null  *)
(* byte being tokens of their own.  A NUMBER or STRING token carries the   *)
(* object its literal                                                      *)
(* denotes; every other part of parsing, rendering (repr) and walking is   *)
(* computed structurally.                                                  *)
(***************************************************************************)
EXTENDS Integers, Sequences, FiniteSets, TLC

VARIABLES
    input,      \* the argument data_eval was called with
    source,     \* data_eval's local `source` (reassigned at line 140)
    ast,        \* data_eval's local `ast` (line 143), NoAst while unbound
    outcome,    \* what the call returned or raised, NoOutcome while running
    pc,         \* position in data_eval / assert_eval
    data        \* assert_eval's `data` (line 184), NoData outside assert_eval

vars == <<input, source, ast, outcome, pc, data>>

(***************************************************************************)
(* Python objects.  Every object is a record: t is the type name and the   *)
(* other field the payload, named after the type so that two fields of one *)
(* name always hold values of one kind.  A float is kept in hundredths, or *)
(* is an infinity (n is then its sign).                                    *)
(***************************************************************************)
PyNone == [t |-> "NoneType"]
PyBool(b) == [t |-> "bool", b |-> b]
PyInt(n) == [t |-> "int", i |-> n]
PyFloat(n) == [t |-> "float", f |-> [inf |-> FALSE, n |-> n]]
PyInf(sign) == [t |-> "float", f |-> [inf |-> TRUE, n |-> sign]]
PyStr(s) == [t |-> "str", s |-> s]
PyList(seq) == [t |-> "list", xs |-> seq]
PyTuple(seq) == [t |-> "tuple", xs |-> seq]
\* a dict is the sequence of its <<key, value>> items, keys pairwise unequal
PyDict(items) == [t |-> "dict", items |-> items]
\* datetime.datetime: <<year, month, day, hour, minute, second, microsecond>>
PyDateTime(fields) == [t |-> "datetime", fields |-> fields]
\* datetime.timedelta: <<days, seconds, microseconds>>, normalised
PyTimeDelta(fields) == [t |-> "timedelta", fields |-> fields]
\* a class object, such as datetime.datetime itself; v is its qualified name
PyType(name) == [t |-> "type", name |-> name]

IsNumber(x) == x.t \in {"bool", "int", "float"}

\* the numeric value of a bool, int or float, in hundredths
Hundredths(x) ==
    CASE x.t = "bool" -> [inf |-> FALSE, n |-> IF x.b THEN 100 ELSE 0]
      [] x.t = "int" -> [inf |-> FALSE, n |-> 100 * x.i]
      [] x.t = "float" -> x.f

RECURSIVE PyEq(_, _)
\* Python's ==
PyEq(a, b) ==
    CASE IsNumber(a) /\ IsNumber(b) -> Hundredths(a) = Hundredths(b)
      [] a.t \in {"list", "tuple"} /\ a.t = b.t ->
            /\ Len(a.xs) = Len(b.xs)
            /\ \A i \in 1..Len(a.xs) : PyEq(a.xs[i], b.xs[i])
      [] a.t = "dict" /\ b.t = "dict" ->
            /\ Len(a.items) = Len(b.items)
            /\ \A i \in 1..Len(a.items) : \E j \in 1..Len(b.items) :
                  PyEq(a.items[i][1], b.items[j][1]) /\ PyEq(a.items[i][2], b.items[j][2])
      [] OTHER -> a.t = b.t /\ a.t \notin {"list", "tuple", "dict"} /\ a = b

RECURSIVE Hashable(_)
\* hash(x) succeeds
Hashable(x) ==
    CASE x.t \in {"list", "dict"} -> FALSE
      [] x.t = "tuple" -> \A i \in 1..Len(x.xs) : Hashable(x.xs[i])
      [] OTHER -> TRUE

(***************************************************************************)
(* Tokens.                                                                 *)
(***************************************************************************)
TokOp(s) == [k |-> "OP", s |-> s]
TokName(s) == [k |-> "NAME", s |-> s]
TokKeyword(s) == [k |-> "KEYWORD", s |-> s]
\* a number literal; s is the non-negative int or float it denotes
TokNumber(x) == [k |-> "NUMBER", num |-> x]
\* a string literal; s is the str it denotes
TokString(s) == [k |-> "STRING", s |-> s]
CR == [k |-> "EOL", s |-> "\r"]
LF == [k |-> "EOL", s |-> "\n"]
NEWLINE == [k |-> "NEWLINE", s |-> ""]
ENDMARKER == [k |-> "ENDMARKER", s |-> ""]
\* the character "\0" (chr(0))
NUL == [k |-> "NUL", s |-> "chr(0)"]

(***************************************************************************)
(* compiler.ast nodes.                                                     *)
(***************************************************************************)
Expression(node) == [type |-> "Expression", node |-> node]
Name(name) == [type |-> "Name", name |-> name]
Const(value) == [type |-> "Const", value |-> value]
UnarySub(expr) == [type |-> "UnarySub", expr |-> expr]
UnaryAdd(expr) == [type |-> "UnaryAdd", expr |-> expr]
Add(left, right) == [type |-> "Add", left |-> left, right |-> right]
Sub(left, right) == [type |-> "Sub", left |-> left, right |-> right]
Compare(expr, op, right) == [type |-> "Compare", expr |-> expr, op |-> op, right |-> right]
List(nodes) == [type |-> "List", nodes |-> nodes]
Tuple(nodes) == [type |-> "Tuple", nodes |-> nodes]
\* items: a sequence of <<key node, value node>>
Dict(items) == [type |-> "Dict", items |-> items]
Getattr(expr, attrname) == [type |-> "Getattr", expr |-> expr, attrname |-> attrname]
CallFunc(node, args) == [type |-> "CallFunc", node |-> node, args |-> args]
NoAst == [type |-> "NoAst"]

(***************************************************************************)
(* compiler.parse(source, "eval"), Python 2.6:     the tokenizer's         *)
(* treatment of line ends, then the expression grammar                     *)
(*   eval_input: testlist NEWLINE* ENDMARKER                               *)
(* restricted to the operators of the token alphabet.                      *)
(***************************************************************************)
Opening == {TokOp("("), TokOp("["), TokOp("{")}
Closing == {TokOp(")"), TokOp("]"), TokOp("}")}

RECURSIVE Scan(_, _, _, _)
\* The tokenizer's line structure.  A "\n" inside brackets or on a blank
\* line is skipped, any other "\n" ends a logical line (NEWLINE).  A "\r" is
\* no character of the language: it stays, and no grammar rule accepts it.
Scan(toks, i, level, nonblank) ==
    IF i > Len(toks) THEN <<>>
    ELSE LET tok == toks[i] IN
         IF tok = LF
         THEN IF level <= 0 /\ nonblank
              THEN <<NEWLINE>> \o Scan(toks, i + 1, level, FALSE)
              ELSE Scan(toks, i + 1, level, nonblank)
         ELSE <<tok>> \o Scan(toks, i + 1,
                              IF tok \in Opening THEN level + 1
                              ELSE IF tok \in Closing THEN level - 1
                              ELSE level,
                              TRUE)

\* eval_input accepts NEWLINE* before ENDMARKER
StripNewline(toks) ==
    IF Len(toks) > 0 /\ toks[Len(toks)] = NEWLINE
    THEN SubSeq(toks, 1, Len(toks) - 1)
    ELSE toks

Tok(toks, i) == IF i <= Len(toks) THEN toks[i] ELSE ENDMARKER

NoParse == [ok |-> FALSE]
Parsed(node, pos) == [ok |-> TRUE, node |-> node, pos |-> pos]

RECURSIVE Rule(_, _, _, _)
\* The recursive-descent parser, one grammar rule per arm.  Rule(rule, toks,
\* i, arg) parses rule at position i of toks; arg is the rule's argument
\* (the node parsed so far, the closing token, the string so far).  The
\* result is [ok, node, pos], for "seq" [ok, nodes, pos, comma] and for
\* "dictmaker" [ok, items, pos], pos being the position after the match.
Rule(rule, toks, i, arg) ==
    LET tok == Tok(toks, i) IN
    CASE rule = "seq" ->
            \* test (',' test)* [','] up to the closing token arg
            IF tok = arg
            THEN [ok |-> TRUE, nodes |-> <<>>, pos |-> i + 1, comma |-> FALSE]
            ELSE LET r == Rule("test", toks, i, NoAst) IN
                 IF ~r.ok THEN NoParse
                 ELSE IF Tok(toks, r.pos) = arg
                 THEN [ok |-> TRUE, nodes |-> <<r.node>>, pos |-> r.pos + 1,
                       comma |-> FALSE]
                 ELSE IF Tok(toks, r.pos) = TokOp(",")
                 THEN LET rest == Rule("seq", toks, r.pos + 1, arg) IN
                      IF ~rest.ok THEN NoParse
                      ELSE [ok |-> TRUE, nodes |-> <<r.node>> \o rest.nodes,
                            pos |-> rest.pos, comma |-> TRUE]
                 ELSE NoParse
      [] rule = "dictmaker" ->
            \* test ':' test (',' test ':' test)* [','] up to '}'
            IF tok = TokOp("}")
            THEN [ok |-> TRUE, items |-> <<>>, pos |-> i + 1]
            ELSE LET k == Rule("test", toks, i, NoAst) IN
                 IF ~k.ok THEN NoParse
                 ELSE IF Tok(toks, k.pos) # TokOp(":") THEN NoParse
                 ELSE LET v == Rule("test", toks, k.pos + 1, NoAst) IN
                      IF ~v.ok THEN NoParse
                      ELSE IF Tok(toks, v.pos) = TokOp("}")
                      THEN [ok |-> TRUE, items |-> <<<<k.node, v.node>>>>,
                            pos |-> v.pos + 1]
                      ELSE IF Tok(toks, v.pos) = TokOp(",")
                      THEN LET rest == Rule("dictmaker", toks, v.pos + 1, NoAst) IN
                           IF ~rest.ok THEN NoParse
                           ELSE [ok |-> TRUE,
                                 items |-> <<<<k.node, v.node>>>> \o rest.items,
                                 pos |-> rest.pos]
                      ELSE NoParse
      [] rule = "test" ->
            \* arith_expr (('<'|'>') arith_expr)*
            LET r == Rule("arith_expr", toks, i, NoAst) IN
            IF r.ok THEN Rule("comparisons", toks, r.pos, r.node) ELSE NoParse
      [] rule = "comparisons" ->
            IF tok \in {TokOp("<"), TokOp(">")}
            THEN LET r == Rule("arith_expr", toks, i + 1, NoAst) IN
                 IF ~r.ok THEN NoParse
                 ELSE Rule("comparisons", toks, r.pos, Compare(arg, tok.s, r.node))
            ELSE Parsed(arg, i)
      [] rule = "arith_expr" ->
            \* factor (('+'|'-') factor)*
            LET r == Rule("factor", toks, i, NoAst) IN
            IF r.ok THEN Rule("terms", toks, r.pos, r.node) ELSE NoParse
      [] rule = "terms" ->
            IF tok \in {TokOp("-"), TokOp("+")}
            THEN LET r == Rule("factor", toks, i + 1, NoAst) IN
                 IF ~r.ok THEN NoParse
                 ELSE Rule("terms", toks, r.pos,
                           IF tok = TokOp("+") THEN Add(arg, r.node)
                           ELSE Sub(arg, r.node))
            ELSE Parsed(arg, i)
      [] rule = "factor" ->
            \* ('+'|'-') factor | power
            IF tok \in {TokOp("-"), TokOp("+")}
            THEN LET r == Rule("factor", toks, i + 1, NoAst) IN
                 IF ~r.ok THEN NoParse
                 ELSE IF tok = TokOp("-") THEN Parsed(UnarySub(r.node), r.pos)
                 ELSE Parsed(UnaryAdd(r.node), r.pos)
            ELSE Rule("power", toks, i, NoAst)
      [] rule = "power" ->
            \* atom trailer*
            LET r == Rule("atom", toks, i, NoAst) IN
            IF r.ok THEN Rule("trailers", toks, r.pos, r.node) ELSE NoParse
      [] rule = "trailers" ->
            \* '(' [arglist] ')' | '.' NAME
            IF tok = TokOp("(")
            THEN LET r == Rule("seq", toks, i + 1, TokOp(")")) IN
                 IF r.ok THEN Rule("trailers", toks, r.pos, CallFunc(arg, r.nodes))
                 ELSE NoParse
            ELSE IF tok = TokOp(".")
            THEN IF Tok(toks, i + 1).k = "NAME"
                 THEN Rule("trailers", toks, i + 2, Getattr(arg, Tok(toks, i + 1).s))
                 ELSE NoParse
            ELSE Parsed(arg, i)
      [] rule = "strings" ->
            \* STRING+ : adjacent string literals are concatenated
            IF tok.k = "STRING"
            THEN Rule("strings", toks, i + 1, arg \o tok.s)
            ELSE Parsed(Const(PyStr(arg)), i)
      [] rule = "atom" ->
            \* '(' [testlist] ')' | '[' [listmaker] ']' | '{' [dictmaker] '}'
            \* | NAME | NUMBER | STRING+
            CASE tok.k = "NAME" -> Parsed(Name(tok.s), i + 1)
              [] tok.k = "NUMBER" -> Parsed(Const(tok.num), i + 1)
              [] tok.k = "STRING" -> Rule("strings", toks, i, "")
              [] tok = TokOp("[") ->
                    LET r == Rule("seq", toks, i + 1, TokOp("]")) IN
                    IF r.ok THEN Parsed(List(r.nodes), r.pos) ELSE NoParse
              [] tok = TokOp("(") ->
                    LET r == Rule("seq", toks, i + 1, TokOp(")")) IN
                    IF ~r.ok THEN NoParse
                    ELSE IF Len(r.nodes) = 1 /\ ~r.comma
                    THEN Parsed(r.nodes[1], r.pos)
                    ELSE Parsed(Tuple(r.nodes), r.pos)
              [] tok = TokOp("{") ->
                    LET r == Rule("dictmaker", toks, i + 1, NoAst) IN
                    IF r.ok THEN Parsed(Dict(r.items), r.pos) ELSE NoParse
              [] OTHER -> NoParse

\* parse(source, "eval") (line 143): [ok, exc, node]; ~ok is the exception
\* exc raised.  compiler.parse hands the text to parser.expr, which takes a
\* string without null bytes and raises TypeError for any other, before it
\* reads a token; what it reads and the grammar refuses is a SyntaxError.
parse(text) ==
    LET toks == StripNewline(Scan(text, 1, 0, FALSE))
        r == Rule("seq", toks, 1, ENDMARKER)
    IN  IF \E i \in 1..Len(text) : text[i] = NUL
        THEN [ok |-> FALSE, exc |-> "TypeError", node |-> NoAst]
        ELSE IF ~r.ok \/ Len(r.nodes) = 0
        THEN [ok |-> FALSE, exc |-> "SyntaxError", node |-> NoAst]
        ELSE IF Len(r.nodes) = 1 /\ ~r.comma
        THEN [ok |-> TRUE, exc |-> "", node |-> Expression(r.nodes[1])]
        ELSE [ok |-> TRUE, exc |-> "", node |-> Expression(Tuple(r.nodes))]

(***************************************************************************)
(* The datetime module's constructors, as visitCallFunc invokes them       *)
(* (line 128): positional arguments only.                                  *)
(***************************************************************************)
\* What a call or a visit yields: a returned object (exc = "") or a raised
\* exception of class exc.  log is the history of the walk so far: one
\* <<node class, detail>> entry per visit() and one <<"call", name>> entry
\* per constructor invoked.
Return(val, log) == [exc |-> "", msg |-> "", val |-> val, log |-> log]
Raise(exc, msg, log) == [exc |-> exc, msg |-> msg, val |-> PyNone, log |-> log]

IsLeap(year) == year % 4 = 0 /\ (year % 100 # 0 \/ year % 400 = 0)

DaysInMonth(year, month) ==
    CASE month \in {4, 6, 9, 11} -> 30
      [] month = 2 -> IF IsLeap(year) THEN 29 ELSE 28
      [] OTHER -> 31

\* an argument as a C int: a bool counts as an int
AsInt(x) == IF x.t = "bool" THEN (IF x.b THEN 1 ELSE 0) ELSE x.i

\* datetime.datetime(year, month, day[, hour[, minute[, second[, microsecond]]]]).
\* An eighth argument would have to be a tzinfo object, which no literal
\* denotes.  A float is refused as in Python 2.7 (earlier versions accept it
\* with a deprecation warning); no input explored passes one.
NewDateTime(args, log) ==
    LET f == [i \in 1..7 |-> IF i <= Len(args) THEN AsInt(args[i]) ELSE 0] IN
    IF Len(args) < 3 \/ Len(args) > 8
    THEN Raise("TypeError", "wrong number of arguments", log)
    ELSE IF Len(args) = 8 \/ \E i \in 1..Len(args) : args[i].t \notin {"bool", "int"}
    THEN Raise("TypeError", "an integer is required", log)
    ELSE IF \/ f[1] < 1 \/ f[1] > 9999
            \/ f[2] < 1 \/ f[2] > 12
            \/ f[3] < 1 \/ f[3] > DaysInMonth(f[1], f[2])
            \/ f[4] < 0 \/ f[4] > 23
            \/ f[5] < 0 \/ f[5] > 59
            \/ f[6] < 0 \/ f[6] > 59
            \/ f[7] < 0 \/ f[7] > 999999
    THEN Raise("ValueError", "argument out of range", log)
    ELSE Return(PyDateTime(f), log)

\* One positional argument of timedelta as <<days, seconds, microseconds>>.
\* The parameters are, in order: days, seconds, microseconds, milliseconds,
\* minutes, hours, weeks.  h is the argument in hundredths of its unit.
DeltaPart(i, x) ==
    LET h == Hundredths(x).n IN
    CASE i = 1 -> <<h \div 100, (h % 100) * 864, 0>>
      [] i = 2 -> <<0, h \div 100, (h % 100) * 10000>>
      [] i = 3 -> <<0, 0, (h + 50) \div 100>>
      [] i = 4 -> <<0, 0, h * 10>>
      [] i = 5 -> <<0, (h * 60) \div 100, ((h * 60) % 100) * 10000>>
      [] i = 6 -> <<0, h * 36, 0>>
      [] i = 7 -> <<(h * 7) \div 100, ((h * 7) % 100) * 864, 0>>

RECURSIVE DeltaSum(_, _)
DeltaSum(args, i) ==
    IF i > Len(args) THEN <<0, 0, 0>>
    ELSE LET p == DeltaPart(i, args[i])
             r == DeltaSum(args, i + 1)
         IN  <<p[1] + r[1], p[2] + r[2], p[3] + r[3]>>

\* datetime.timedelta([days[, seconds[, microseconds[, milliseconds[,
\*                     minutes[, hours[, weeks]]]]]]]), normalised so that
\* 0 <= seconds < 86400 and 0 <= microseconds < 1000000
NewTimeDelta(args, log) ==
    IF Len(args) > 7
    THEN Raise("TypeError", "wrong number of arguments", log)
    ELSE IF \E i \in 1..Len(args) : ~IsNumber(args[i])
    THEN Raise("TypeError", "unsupported type for timedelta component", log)
    ELSE IF \E i \in 1..Len(args) : Hundredths(args[i]).inf
    THEN Raise("OverflowError", "cannot convert float infinity to integer", log)
    ELSE LET t == DeltaSum(args, 1)
             secs == t[2] + (t[3] \div 1000000)
             days == t[1] + (secs \div 86400)
         IN  IF days < -999999999 \/ days > 999999999
             THEN Raise("OverflowError", "days out of range", log)
             ELSE Return(PyTimeDelta(<<days, secs % 86400, t[3] % 1000000>>), log)

\* callable(*args) (line 128)
Call(callable, args, log) ==
    IF callable.t # "type"
    THEN Raise("TypeError", "object is not callable", log)
    ELSE IF callable.name = "datetime.datetime"
    THEN NewDateTime(args, log \o <<<<"call", callable.name>>>>)
    ELSE NewTimeDelta(args, log \o <<<<"call", callable.name>>>>)

(***************************************************************************)
(* SafeEval, the AST walker (lines 39-128).                                *)
(***************************************************************************)
NAME_MAP == ("none" :> PyNone) @@ ("true" :> PyBool(TRUE)) @@ ("false" :> PyBool(FALSE))

ALLOWED_CALLABLES == ("datetime" :> "datetime") @@ ("timedelta" :> "datetime")

\* str.lower() on the identifiers of the token alphabet
UpperCased ==
    ("None" :> "none") @@ ("NONE" :> "none") @@ ("True" :> "true") @@
    ("TRUE" :> "true") @@ ("False" :> "false") @@ ("FALSE" :> "false") @@
    ("Datetime" :> "datetime")

lower(name) == IF name \in DOMAIN UpperCased THEN UpperCased[name] ELSE name

\* the log entry of one visit() call
Visited(node) ==
    <<node.type,
      CASE node.type = "Name" -> node.name
        [] node.type = "Getattr" -> node.attrname
        [] OTHER -> "">>

\* reversed(seq)
Reverse(seq) == [i \in 1..Len(seq) |-> seq[Len(seq) + 1 - i]]

unsupported(node, log) ==
    Raise("UnsafeSourceError", "Unsupported source construct", log)

\* visitName, were an unknown bare word taken for a string
visitName_ImplicitString(node, log) ==
    LET name_lower == lower(node.name) IN
    IF name_lower \in DOMAIN NAME_MAP
    THEN Return(NAME_MAP[name_lower], log)
    ELSE Return(PyStr(node.name), log)

visitName(node, log) ==
    LET name_lower == lower(node.name) IN
    IF name_lower \in DOMAIN NAME_MAP
    THEN Return(NAME_MAP[name_lower], log)
    ELSE Raise("UnsafeSourceError", "Strings must be quoted", log)

\* `node.value`: only a Const node has the attribute
visitConst(node, log) ==
    IF node.type = "Const"
    THEN Return(node.value, log)
    ELSE Raise("AttributeError", "node has no attribute 'value'", log)

\* `- number`
Negative(number, log) ==
    CASE number.t = "int" -> Return(PyInt(-number.i), log)
      [] number.t = "float" ->
            Return([t |-> "float", f |-> [inf |-> number.f.inf, n |-> -number.f.n]], log)
      [] OTHER -> Raise("TypeError", "bad operand type for unary -", log)

\* visitUnarySub, were the sign dropped
visitUnarySub_Unsigned(node, log) == visitConst(node.expr, log)

visitUnarySub(node, log) ==
    LET number == visitConst(node.expr, log) IN
    IF number.exc # "" THEN number ELSE Negative(number.val, log)

visitGetattr(node, log) ==
    LET attrname == node.attrname IN
    IF attrname \notin DOMAIN ALLOWED_CALLABLES
    THEN Raise("UnsafeSourceError", "Callable not allowed.", log)
    ELSE LET callable_name == ALLOWED_CALLABLES[attrname] IN
         Return(PyType(callable_name \o "." \o attrname), log)

RECURSIVE DictOf(_, _, _, _)
\* dict(pairs): pairs is the flat sequence k1, v1, k2, v2, ...; a key equal
\* to an earlier one keeps the earlier key and takes the later value
DictOf(pairs, i, items, log) ==
    IF i > Len(pairs) THEN Return(PyDict(items), log)
    ELSE LET k == pairs[i]
             v == pairs[i + 1]
         IN  IF ~Hashable(k) THEN Raise("TypeError", "unhashable type", log)
             ELSE IF \E j \in 1..Len(items) : PyEq(items[j][1], k)
             THEN LET j == CHOOSE j \in 1..Len(items) : PyEq(items[j][1], k) IN
                  DictOf(pairs, i + 2, [items EXCEPT ![j] = <<items[j][1], v>>], log)
             ELSE DictOf(pairs, i + 2, Append(items, <<k, v>>), log)

\* the nodes of a Dict in the order line 95 visits them: k1, v1, k2, v2, ...
KeysAndValues(items) ==
    [i \in 1..(2 * Len(items)) |-> items[(i + 1) \div 2][2 - (i % 2)]]

RECURSIVE visit(_, _)
RECURSIVE VisitEach(_, _, _, _)

\* [self.visit(i) for i in nodes]: left to right, up to the first exception
VisitEach(nodes, i, vals, log) ==
    IF i > Len(nodes) THEN Return(PyList(vals), log)
    ELSE LET r == visit(nodes[i], log) IN
         IF r.exc # "" THEN r
         ELSE VisitEach(nodes, i + 1, Append(vals, r.val), r.log)

visitExpression(node, log) == visit(node.node, log)

visitDict(node, log) ==
    LET r == VisitEach(KeysAndValues(node.items), 1, <<>>, log) IN
    IF r.exc # "" THEN r ELSE DictOf(r.val.xs, 1, <<>>, r.log)

visitTuple(node, log) ==
    LET r == VisitEach(node.nodes, 1, <<>>, log) IN
    IF r.exc # "" THEN r ELSE Return(PyTuple(r.val.xs), r.log)

visitList(node, log) == VisitEach(node.nodes, 1, <<>>, log)

\* visitCallFunc, were the arguments evaluated from the last to the first
visitCallFunc_RightToLeft(node, log) ==
    LET callable == visit(node.node, log) IN
    IF callable.exc # "" THEN callable
    ELSE LET args == VisitEach(Reverse(node.args), 1, <<>>, callable.log) IN
         IF args.exc # "" THEN args
         ELSE Call(callable.val, Reverse(args.val.xs), args.log)

visitCallFunc(node, log) ==
    LET callable == visit(node.node, log) IN
    IF callable.exc # "" THEN callable
    ELSE LET args == VisitEach(node.args, 1, <<>>, callable.log) IN
         IF args.exc # "" THEN args
         ELSE Call(callable.val, args.val.xs, args.log)

\* dispatch on the node's class name (lines 54-59)
visit(node, log) ==
    LET here == log \o <<Visited(node)>> IN
    CASE node.type = "Expression" -> visitExpression(node, here)
      [] node.type = "Name" -> visitName(node, here)
      [] node.type = "Const" -> visitConst(node, here)
      [] node.type = "UnarySub" -> visitUnarySub(node, here)
      [] node.type = "Dict" -> visitDict(node, here)
      [] node.type = "Tuple" -> visitTuple(node, here)
      [] node.type = "List" -> visitList(node, here)
      [] node.type = "Getattr" -> visitGetattr(node, here)
      [] node.type = "CallFunc" -> visitCallFunc(node, here)
      [] OTHER -> unsupported(node, here)

(***************************************************************************)
(* data_eval (lines 131-147).                                              *)
(***************************************************************************)
\* A str (or unicode) object used as source text: v is its token sequence.
Text(tokens) == [t |-> "str", tokens |-> tokens]

RECURSIVE replace(_, _, _)
\* str.replace(old, new): every non-overlapping occurrence, left to right
replace(text, old, new) ==
    IF Len(text) < Len(old) THEN text
    ELSE IF SubSeq(text, 1, Len(old)) = old
    THEN new \o replace(SubSeq(text, Len(old) + 1, Len(text)), old, new)
    ELSE <<Head(text)>> \o replace(Tail(text), old, new)

\* lines 142-145: what becomes of the exception parse raised
ParseError(exc) ==
    IF exc = "SyntaxError"
    THEN Raise("EvalSyntaxError", "invalid syntax", <<>>)
    ELSE Raise(exc, "expr() argument 1 must be string without null bytes", <<>>)

\* lines 142-147: parse, then walk
Evaluate(text) ==
    LET r == parse(text) IN
    IF r.ok THEN visit(r.node, <<>>) ELSE ParseError(r.exc)

\* line 140, were the two replacements made in the other order
NormalizeLineEndings_CRFirst(text) ==
    replace(replace(text, <<CR>>, <<LF>>), <<CR, LF>>, <<LF>>)

\* line 140
NormalizeLineEndings(text) == replace(replace(text, <<CR, LF>>, <<LF>>), <<CR>>, <<LF>>)

\* the pass-through test, were it to let any container through
IsDict_AnyContainer(x) == x.t \in {"dict", "list", "tuple"}

\* isinstance(source, dict)
IsDict(x) == x.t = "dict"

\* isinstance(source, six.string_types)
IsString(x) == x.t \in {"str", "unicode"}

NoOutcome == [exc |-> "running", msg |-> "", val |-> PyNone, log |-> <<>>]
NoData == [t |-> "NoData"]

(***************************************************************************)
(* repr(), as TestDataEval.assert_eval uses it (line 185), Python 2.       *)
(***************************************************************************)
RECURSIVE repr(_, _)
RECURSIVE ReprItems(_, _, _)
RECURSIVE ReprDictItems(_, _, _)

\* the elements' reprs, joined by commas
ReprItems(xs, i, rev) ==
    IF i > Len(xs) THEN <<>>
    ELSE repr(xs[i], rev)
         \o (IF i < Len(xs) THEN <<TokOp(",")>> ELSE <<>>)
         \o ReprItems(xs, i + 1, rev)

ReprDictItems(items, i, rev) ==
    IF i > Len(items) THEN <<>>
    ELSE repr(items[i][1], rev) \o <<TokOp(":")>> \o repr(items[i][2], rev)
         \o (IF i < Len(items) THEN <<TokOp(",")>> ELSE <<>>)
         \o ReprDictItems(items, i + 1, rev)

\* repr(x).  A dict is rendered in its hash order, which the program does
\* not control: rev chooses between the two orders of the model.
repr(x, rev) ==
    CASE x.t = "NoneType" -> <<TokName("None")>>
      [] x.t = "bool" -> <<TokName(IF x.b THEN "True" ELSE "False")>>
      [] x.t = "int" ->
            IF x.i < 0 THEN <<TokOp("-"), TokNumber(PyInt(-x.i))>>
            ELSE <<TokNumber(x)>>
      [] x.t = "float" ->
            (IF x.f.n < 0 THEN <<TokOp("-")>> ELSE <<>>)
            \o (IF x.f.inf THEN <<TokName("inf")>>
                ELSE <<TokNumber(PyFloat(IF x.f.n < 0 THEN -x.f.n ELSE x.f.n))>>)
      [] x.t = "str" -> <<TokString(x.s)>>
      [] x.t = "list" -> <<TokOp("[")>> \o ReprItems(x.xs, 1, rev) \o <<TokOp("]")>>
      [] x.t = "tuple" ->
            <<TokOp("(")>> \o ReprItems(x.xs, 1, rev)
            \o (IF Len(x.xs) = 1 THEN <<TokOp(",")>> ELSE <<>>) \o <<TokOp(")")>>
      [] x.t = "dict" ->
            <<TokOp("{")>>
            \o ReprDictItems(IF rev THEN Reverse(x.items) ELSE x.items, 1, rev)
            \o <<TokOp("}")>>
      [] x.t = "datetime" ->
            <<TokName("datetime"), TokOp("."), TokName("datetime"), TokOp("(")>>
            \o ReprItems([i \in 1..(IF x.fields[7] # 0 THEN 7 ELSE IF x.fields[6] # 0 THEN 6 ELSE 5)
                            |-> PyInt(x.fields[i])], 1, rev)
            \o <<TokOp(")")>>
      [] x.t = "timedelta" ->
            <<TokName("datetime"), TokOp("."), TokName("timedelta"), TokOp("(")>>
            \o ReprItems([i \in 1..(IF x.fields[3] # 0 THEN 3 ELSE IF x.fields[2] # 0 THEN 2 ELSE 1)
                            |-> PyInt(x.fields[i])], 1, rev)
            \o <<TokOp(")")>>
      [] x.t = "type" ->
            <<TokOp("<"), TokName("type"), TokString(x.name), TokOp(">")>>

(***************************************************************************)
(* The inputs explored: the sources of the module's unit tests and their   *)
(* neighbours, each nested in up to Depth enclosing constructs, and each   *)
(* with line endings of up to MaxEol characters put between its tokens.    *)
(***************************************************************************)
Depth == 1
MaxEol == 2

\* token abbreviations
N(s) == TokName(s)
I(n) == TokNumber(PyInt(n))
F(n) == TokNumber(PyFloat(n))
S(s) == TokString(s)
LP == TokOp("(")
RP == TokOp(")")
LB == TokOp("[")
RB == TokOp("]")
LC == TokOp("{")
RC == TokOp("}")
COMMA == TokOp(",")
COLON == TokOp(":")
DOT == TokOp(".")
MINUS == TokOp("-")
PLUS == TokOp("+")

Atoms ==
    { <<N("None")>>, <<N("none")>>, <<N("True")>>, <<N("TRUE")>>, <<N("false")>>,
      <<N("a")>>, <<N("datetime")>>,
      <<I(0)>>, <<I(1)>>, <<F(101)>>, <<TokNumber(PyInf(1))>>,
      <<S("foo")>>, <<S("foo"), S("bar")>>,
      <<MINUS, I(1)>>, <<MINUS, F(202)>>, <<MINUS, MINUS, I(1)>>,
      <<MINUS, N("a")>>, <<MINUS, S("foo")>>, <<PLUS, I(1)>> }

Containers ==
    { <<LB, RB>>, <<LB, I(1), COMMA, I(2), RB>>, <<LB, N("True"), COMMA, N("False"), RB>>,
      <<LP, RP>>, <<LP, I(1), COMMA, RP>>, <<LP, I(1), COMMA, I(2), RP>>, <<LP, I(1), RP>>,
      <<I(1), COMMA, I(2)>>,
      <<LC, RC>>, <<LC, S("foo"), COLON, I(1), RC>>,
      <<LC, I(1), COLON, I(2), COMMA, S("a"), COLON, S("b"), COMMA, RC>>,
      <<LC, I(1), COLON, S("a"), COMMA, N("True"), COLON, S("b"), RC>>,
      <<LC, LB, I(1), RB, COLON, I(2), RC>>,
      <<LC, LP, I(1), COMMA, I(2), RP, COLON, LC, RC, RC>> }

Calls ==
    { <<N("datetime"), DOT, N("datetime"), LP, I(2024), COMMA, I(1), COMMA, I(1), RP>>,
      <<N("datetime"), DOT, N("datetime"), LP, I(2024), COMMA, I(2), COMMA, I(29),
        COMMA, I(23), COMMA, I(59), COMMA, I(1), COMMA, I(5), RP>>,
      <<N("datetime"), LP, I(2024), COMMA, I(1), COMMA, I(1), RP>>,
      <<N("datetime"), DOT, N("datetime"), LP, I(2024), COMMA, I(13), COMMA, I(1), RP>>,
      <<N("datetime"), DOT, N("datetime"), LP, I(2023), COMMA, I(2), COMMA, I(29), RP>>,
      <<N("datetime"), DOT, N("datetime"), LP, I(2024), COMMA, N("True"), COMMA, I(1), RP>>,
      <<N("datetime"), DOT, N("datetime"), LP, I(2024), COMMA, I(1), COMMA, S("foo"), RP>>,
      <<N("datetime"), DOT, N("datetime")>>,
      <<N("x"), DOT, N("timedelta")>>,
      <<N("datetime"), DOT, N("timedelta"), LP, RP>>,
      <<N("datetime"), DOT, N("timedelta"), LP, I(1), RP>>,
      <<N("datetime"), DOT, N("timedelta"), LP, I(0), COMMA, I(2), RP>>,
      <<N("datetime"), DOT, N("timedelta"), LP, I(2), COMMA, I(0), RP>>,
      <<N("datetime"), DOT, N("timedelta"), LP, MINUS, F(101), COMMA, I(0), COMMA, I(5), RP>>,
      <<N("datetime"), DOT, N("timedelta"), LP, S("foo"), RP>>,
      <<N("timedelta"), LP, I(1), RP>>,
      <<N("x"), DOT, N("Datetime"), LP, I(1), RP>>,
      <<N("eval"), LP, RP>>, <<N("eval"), LP, I(1), RP>>,
      <<N("x"), DOT, N("eval"), LP, I(1), RP>>,
      <<N("none"), LP, I(1), RP>>, <<N("True"), LP, RP>>,
      <<I(1), LP, I(2), RP>>,
      <<N("a"), PLUS, I(2)>>, <<I(1), MINUS, I(1)>>, <<I(1), TokOp("<"), I(2)>> }

Malformed ==
    { <<>>, <<COLON>>, <<TokKeyword("import"), N("os")>>, <<I(1), I(2)>>,
      <<LB, I(1)>>, <<I(1), RP>>, <<LP, COMMA, RP>>, <<LB, I(1), COMMA, COMMA, RB>>,
      <<N("a"), DOT>>, <<LC, I(1), RC>>, <<N("a"), N("b")>>, <<MINUS>>,
      <<NUL>>, <<I(1), NUL>>, <<S("foo"), PLUS, NUL>> }

Corpus == Atoms \cup Containers \cup Calls \cup Malformed

\* a text inside one more construct
Enclosed(t) ==
    { <<LB>> \o t \o <<RB>>,
      <<LP>> \o t \o <<COMMA, RP>>,
      <<LC>> \o t \o <<COLON, I(1), RC>>,
      <<LC, I(1), COLON>> \o t \o <<RC>>,
      <<LB, I(1), COMMA>> \o t \o <<RB>>,
      <<MINUS>> \o t,
      <<N("datetime"), DOT, N("timedelta"), LP>> \o t \o <<COMMA, N("a"), RP>>,
      <<N("eval"), LP>> \o t \o <<RP>> }

RECURSIVE Nested(_)
Nested(d) ==
    IF d = 0 THEN Corpus
    ELSE Nested(d - 1) \cup UNION { Enclosed(t) : t \in Nested(d - 1) }

RECURSIVE Fillers(_)
\* the non-empty sequences of at most n line ending characters
Fillers(n) ==
    IF n = 0 THEN {}
    ELSE Fillers(n - 1)
         \cup { <<c>> : c \in {CR, LF} }
         \cup { f \o <<c>> : f \in Fillers(n - 1), c \in {CR, LF} }

RECURSIVE Interleaved(_, _)
\* f before every token of t and after the last one
Interleaved(t, f) == IF t = <<>> THEN f ELSE f \o <<Head(t)>> \o Interleaved(Tail(t), f)

WithLineEndings ==
    { Interleaved(t, f) : t \in Corpus, f \in Fillers(MaxEol) }
    \cup UNION { { SubSeq(t, 1, i) \o f \o SubSeq(t, i + 1, Len(t)) : i \in 0..Len(t) }
                 : <<t, f>> \in Corpus \X Fillers(MaxEol) }

Texts == Nested(Depth) \cup WithLineEndings

\* the objects that the tests hand to assert_eval (lines 189-228), and the
\* one-element and nested tuples
TestData ==
    { PyNone, PyBool(TRUE), PyBool(FALSE), PyList(<<PyBool(TRUE), PyBool(FALSE)>>),
      PyInt(1), PyFloat(101), PyStr("FooBar"),
      PyInt(-1), PyFloat(-202),
      PyTuple(<<>>), PyTuple(<<PyInt(1), PyInt(2)>>),
      PyTuple(<<PyStr("1"), PyStr("2"), PyNone, PyBool(TRUE), PyBool(FALSE)>>),
      PyTuple(<<PyInt(1)>>), PyTuple(<<PyInt(1), PyTuple(<<PyInt(-2)>>), PyList(<<>>)>>),
      PyList(<<>>), PyList(<<PyInt(1), PyInt(2), PyInt(-3), PyFloat(-441)>>),
      PyList(<<PyStr("foo"), PyStr("bar"), PyNone, PyBool(TRUE), PyBool(FALSE)>>),
      PyDict(<<>>),
      PyDict(<<<<PyInt(1), PyInt(2)>>, <<PyStr("a"), PyStr("b")>>,
               <<PyStr("d"), PyInt(-1)>>, <<PyStr("e"), PyFloat(-202)>>>>),
      PyDict(<<<<PyStr("foo"), PyStr("bar")>>, <<PyStr("1"), PyNone>>,
               <<PyInt(1), PyBool(TRUE)>>, <<PyInt(0), PyBool(FALSE)>>>>),
      PyDateTime(<<2024, 1, 2, 3, 4, 5, 6>>), PyDateTime(<<2024, 2, 29, 23, 59, 0, 0>>),
      PyDict(<<<<PyStr("dt"), PyDateTime(<<2024, 1, 2, 3, 4, 5, 0>>)>>>>),
      PyTimeDelta(<<0, 2, 0>>), PyTimeDelta(<<-1, 86399, 999999>>) }

NonTexts ==
    { PyNone, PyBool(TRUE), PyInt(1), PyFloat(101),
      PyList(<<>>), PyList(<<PyInt(1)>>), PyTuple(<<>>), PyTuple(<<PyInt(1), PyInt(2)>>),
      PyDateTime(<<2024, 1, 1, 0, 0, 0, 0>>),
      PyDict(<<>>), PyDict(<<<<PyStr("foo"), PyInt(1)>>>>),
      PyDict(<<<<PyInt(1), PyList(<<PyNone>>)>>, <<PyStr("a"), PyDict(<<>>)>>>>) }

(***************************************************************************)
(* The state machine: one call of data_eval, statement by statement, and   *)
(* TestDataEval.assert_eval, which calls it on the repr of an object.      *)
(***************************************************************************)
Init ==
    /\ input \in NonTexts \cup { Text(t) : t \in Texts }
    /\ source = input
    /\ ast = NoAst
    /\ outcome = NoOutcome
    /\ pc = "data_eval"
    /\ data = NoData

\* lines 136-137
ReturnDict ==
    /\ pc = "data_eval"
    /\ IsDict(source)
    /\ outcome' = Return(source, <<>>)
    /\ pc' = "done"
    /\ UNCHANGED <<input, source, ast, data>>

\* lines 138-139
RaiseNotString ==
    /\ pc = "data_eval"
    /\ ~IsDict(source)
    /\ ~IsString(source)
    /\ outcome' = Raise("DataEvalError", "source must be string/unicode!", <<>>)
    /\ pc' = "done"
    /\ UNCHANGED <<input, source, ast, data>>

\* line 140
Normalize ==
    /\ pc = "data_eval"
    /\ ~IsDict(source)
    /\ IsString(source)
    /\ source' = Text(NormalizeLineEndings(source.tokens))
    /\ pc' = "parse"
    /\ UNCHANGED <<input, ast, outcome, data>>

\* lines 142-145
Parse ==
    /\ pc = "parse"
    /\ LET r == parse(source.tokens) IN
       IF r.ok
       THEN /\ ast' = r.node
            /\ pc' = "walk"
            /\ UNCHANGED outcome
       ELSE /\ outcome' = ParseError(r.exc)
            /\ pc' = "done"
            /\ UNCHANGED ast
    /\ UNCHANGED <<input, source, data>>

\* line 147
Walk ==
    /\ pc = "walk"
    /\ outcome' = visit(ast, <<>>)
    /\ pc' = "done"
    /\ UNCHANGED <<input, source, ast, data>>

\* TestDataEval.assert_eval (lines 184-186), called once the previous call
\* is over, on an object of the tests or on the object that data_eval has
\* just produced from a text
AssertEval ==
    /\ pc = "done"
    /\ data = NoData
    /\ \E d \in TestData \cup (IF IsString(input) /\ outcome.exc = ""
                               THEN {outcome.val} ELSE {}) :
          /\ data' = d
          /\ \E rev \in BOOLEAN : input' = Text(repr(d, rev))
    /\ source' = input'
    /\ ast' = NoAst
    /\ outcome' = NoOutcome
    /\ pc' = "data_eval"

Next ==
    \/ ReturnDict
    \/ RaiseNotString
    \/ Normalize
    \/ Parse
    \/ Walk
    \/ AssertEval

Spec == Init /\ [][Next]_vars

(***************************************************************************)
(* Properties.                                                             *)
(***************************************************************************)
Done == pc = "done"
FromText == IsString(input)
\* the call parsed its source and walked the AST
Walked == Done /\ ast # NoAst
\* the node under the Expression root
Top == ast.node
\* the names of the Name nodes the walk visited
NamesVisited(log) == { log[i][2] : i \in { j \in 1..Len(log) : log[j][1] = "Name" } }
Keyword(name) == lower(name) \in {"none", "true", "false"}

\* C1: when the walk reaches a bare identifier other than none/true/false
\* (in any letter case), wherever it stands, data_eval raises
\* UnsafeSourceError "Strings must be quoted" and returns nothing; a source
\* that is none, true or false in any letter case evaluates to None, True
\* and False.
C1_BareIdentifierRejected ==
    Walked =>
        /\ (\E n \in NamesVisited(outcome.log) : ~Keyword(n)) =>
              /\ outcome.exc = "UnsafeSourceError"
              /\ outcome.msg = "Strings must be quoted"
              /\ outcome.val = PyNone
        /\ (Top.type = "Name" /\ Keyword(Top.name)) =>
              /\ outcome.exc = ""
              /\ lower(Top.name) = "none" => outcome.val = PyNone
              /\ lower(Top.name) = "true" => outcome.val = PyBool(TRUE)
              /\ lower(Top.name) = "false" => outcome.val = PyBool(FALSE)

\* a bare identifier inside a list was walked and rejected
C1_Witness ==
    /\ Walked
    /\ Top.type = "List"
    /\ Len(Top.nodes) = 2
    /\ Top.nodes[2] = Name("a")
    /\ outcome.exc = "UnsafeSourceError"

IsNamedCall(node) ==
    node.type = "CallFunc" /\ node.node.type \in {"Name", "Getattr"}
CalleeName(node) ==
    IF node.node.type = "Name" THEN node.node.name ELSE node.node.attrname

\* C2: a call whose callee name is not in ALLOWED_CALLABLES raises
\* UnsafeSourceError, and does so on the callee: the walk ends at the callee
\* node, with no argument visited and no constructor invoked.
C2_UnlistedCalleeRejectedFirst ==
    (Walked /\ IsNamedCall(Top) /\ CalleeName(Top) \notin DOMAIN ALLOWED_CALLABLES) =>
        /\ outcome.exc = "UnsafeSourceError"
        /\ outcome.log = <<Visited(ast), Visited(Top), Visited(Top.node)>>

RECURSIVE ArgLogs(_, _)
\* the logs of walking each argument on its own, first to last
ArgLogs(args, i) ==
    IF i > Len(args) THEN <<>>
    ELSE visit(args[i], <<>>).log \o ArgLogs(args, i + 1)
ArgValues(args) == [i \in 1..Len(args) |-> visit(args[i], <<>>).val]
ArgsEvaluate(args) == \A i \in 1..Len(args) : visit(args[i], <<>>).exc = ""
\* what the constructor named name makes of the arguments
Constructed(name, args) ==
    Call(PyType("datetime." \o name), ArgValues(args), <<>>)
\* the constructor named name accepts the values of the arguments
Accepted(name, args) ==
    ArgsEvaluate(args) /\ Constructed(name, args).exc = ""

DataTypes ==
    {"NoneType", "bool", "int", "float", "str", "list", "tuple", "dict",
     "datetime", "timedelta"}

RECURSIVE OnlyData(_)
\* x is built only from objects of the data types
OnlyData(x) ==
    /\ x.t \in DataTypes
    /\ x.t \in {"list", "tuple"} => \A i \in 1..Len(x.xs) : OnlyData(x.xs[i])
    /\ x.t = "dict" =>
          \A i \in 1..Len(x.items) : OnlyData(x.items[i][1]) /\ OnlyData(x.items[i][2])

\* C4: what data_eval returns for a text is built only from None, bool,
\* int, float, str, list, tuple, dict, datetime and timedelta objects: no
\* callable is returned or nested in what is returned.
C4_OnlyDataReturned ==
    (Done /\ FromText /\ outcome.exc = "") => OnlyData(outcome.val)

\* C5: whatever data_eval raises is a DataEvalError: EvalSyntaxError when
\* the parse failed, UnsafeSourceError when the walk failed.
C5_OnlyDataEvalErrors ==
    (Done /\ outcome.exc # "") =>
        /\ outcome.exc \in {"DataEvalError", "EvalSyntaxError", "UnsafeSourceError"}
        /\ ast = NoAst /\ FromText => outcome.exc = "EvalSyntaxError"
        /\ ast # NoAst => outcome.exc = "UnsafeSourceError"

RECURSIVE SameValue(_, _)
\* equal, of the same types throughout, elements in the same order
SameValue(a, b) ==
    /\ a.t = b.t
    /\ CASE a.t \in {"list", "tuple"} ->
              /\ Len(a.xs) = Len(b.xs)
              /\ \A i \in 1..Len(a.xs) : SameValue(a.xs[i], b.xs[i])
         [] a.t = "dict" ->
              /\ Len(a.items) = Len(b.items)
              /\ \A i \in 1..Len(a.items) : \E j \in 1..Len(b.items) :
                    /\ SameValue(a.items[i][1], b.items[j][1])
                    /\ SameValue(a.items[i][2], b.items[j][2])
         [] OTHER -> a = b

RECURSIVE Finite(_)
\* no float in x is an infinity
Finite(x) ==
    /\ x.t = "float" => ~x.f.inf
    /\ x.t \in {"list", "tuple"} => \A i \in 1..Len(x.xs) : Finite(x.xs[i])
    /\ x.t = "dict" =>
          \A i \in 1..Len(x.items) : Finite(x.items[i][1]) /\ Finite(x.items[i][2])

\* assert_eval's data_eval(repr(data)) returned, and returned data
RoundTrip ==
    /\ outcome.exc = ""
    /\ PyEq(outcome.val, data)
    /\ SameValue(outcome.val, data)

\* C6 as stated: every object of the data types that data_eval produces
\* from a text is what data_eval returns for its repr.
C6_RoundTripAll ==
    (Done /\ data # NoData /\ OnlyData(data)) => RoundTrip

\* C6 amended: every object of the data types that data_eval produces from
\* a text and that holds no infinite float is what data_eval returns for its
\* repr, list and tuple kept apart and elements in their order.
C6_RoundTripFinite ==
    (Done /\ data # NoData /\ OnlyData(data) /\ Finite(data)) => RoundTrip

\* the list of testList, with its negative numbers, went round
C6_Witness ==
    /\ Done
    /\ data = PyList(<<PyInt(1), PyInt(2), PyInt(-3), PyFloat(-441)>>)
    /\ outcome.exc = ""
    /\ outcome.val = data

\* C7: a text the parser refuses raises EvalSyntaxError, and nothing else
\* does: the walker is not run on it, nothing is returned, and no text the
\* parser accepts raises EvalSyntaxError.
C7_SyntaxErrorDistinct ==
    (Done /\ FromText) =>
        /\ ~parse(source.tokens).ok =>
              /\ outcome = Raise("EvalSyntaxError", "invalid syntax", <<>>)
              /\ ast = NoAst
        /\ parse(source.tokens).ok =>
              /\ outcome.exc # "EvalSyntaxError"
              /\ ast = parse(source.tokens).node

\* "import os" was refused
C7_Witness ==
    /\ Done
    /\ input = Text(<<TokKeyword("import"), TokName("os")>>)
    /\ outcome.exc = "EvalSyntaxError"

\* C8: an input that is not text is never normalised, parsed or walked: a
\* dict is returned as it is, anything else raises DataEvalError.
C8_NonTextInput ==
    (Done /\ ~FromText) =>
        /\ source = input
        /\ ast = NoAst
        /\ outcome.log = <<>>
        /\ input.t = "dict" => outcome = Return(input, <<>>)
        /\ input.t # "dict" =>
              /\ outcome.exc = "DataEvalError"
              /\ outcome.val = PyNone

\* a list was refused
C8_Witness ==
    /\ Done
    /\ input = PyList(<<PyInt(1)>>)
    /\ outcome.exc = "DataEvalError"

RECURSIVE LineFeeds(_)
\* text with each "\r\n" pair and each other "\r" made one "\n"
LineFeeds(text) ==
    IF text = <<>> THEN <<>>
    ELSE IF Head(text) # CR THEN <<Head(text)>> \o LineFeeds(Tail(text))
    ELSE IF Len(text) > 1 /\ text[2] = LF THEN <<LF>> \o LineFeeds(SubSeq(text, 3, Len(text)))
    ELSE <<LF>> \o LineFeeds(Tail(text))

\* C9: the text handed to the parser holds no "\r": it is the source with
\* each "\r\n" and each other "\r" replaced by one "\n"; so the outcome is
\* that of the source written with "\n" line ends.
C9_LineEndings ==
    (FromText /\ pc \in {"parse", "walk", "done"}) =>
        /\ \A i \in 1..Len(source.tokens) : source.tokens[i] # CR
        /\ source.tokens = LineFeeds(input.tokens)
        /\ Done => outcome = Evaluate(LineFeeds(input.tokens))

\* the second source of testLineendings evaluated to {'foo': 1}
C9_Witness ==
    /\ Done
    /\ input = Text(<<CR, LC, CR, S("foo"), CR, COLON, CR, I(1), CR, RC, CR>>)
    /\ outcome.exc = ""
    /\ outcome.val = PyDict(<<<<PyStr("foo"), PyInt(1)>>>>)

IsNumberLiteral(node) ==
    node.type = "Const" /\ node.value.t \in {"int", "float"}

\* C10: minus a number literal is the literal's negation; minus anything
\* else raises UnsafeSourceError.
C10_UnaryMinus ==
    (Walked /\ Top.type = "UnarySub") =>
        IF IsNumberLiteral(Top.expr)
        THEN /\ outcome.exc = ""
             /\ PyEq(outcome.val, Negative(Top.expr.value, <<>>).val)
             /\ Hundredths(outcome.val).n = -Hundredths(Top.expr.value).n
        ELSE /\ outcome.exc = "UnsafeSourceError"
             /\ outcome.val = PyNone

====
